---- MODULE Spec2Model ----
(***************************************************************************)
(* One Streamlit script run of app.py (sales-audit dashboard): credential  *)
(* configuration, PDF upload processing, limpar_e_estruturar_dados, the    *)
(* Vendedor/Status_Contrato filter, the tabs and the AI-analysis button.   *)
(*                                                                         *)
(* Text is a tuple of one-character strings, so that strip(), the regular  *)
(* expression of the trailing-number repair and the numeric conversions    *)
(* are computed character by character.  A cell of a DataFrame is a record *)
(* [k, v]: k = "str" (v the text), "nan" (missing), "num" (v = <<m, e>>,   *)
(* the number m / 10^e with no trailing zero in the fraction), "date"      *)
(* (v = <<d, m, y>>) or "nat" (missing date).  A DataFrame is a sequence   *)
(* of rows [i, c]: i the index label, c the tuple of cells.                *)
(***************************************************************************)
EXTENDS Integers, Sequences, FiniteSets, TLC

VARIABLES pc, GEMINI_CONFIGURADO, uploaded_file, temp_existe, tables,
          df_bruto, df_entrada, idx, df, st_error, tela,
          vendedor_selecionado, status_selecionado, df_filtrado, metricas,
          chamadas_ia, falha, excecao

vars == <<pc, GEMINI_CONFIGURADO, uploaded_file, temp_existe, tables,
          df_bruto, df_entrada, idx, df, st_error, tela,
          vendedor_selecionado, status_selecionado, df_filtrado, metricas,
          chamadas_ia, falha, excecao>>

\* ---------------------------------------------------------------- bounds
MaxSegments == 2
MaxTextLen == 5

\* --------------------------------------------------------- column numbers
ID_Cliente == 1
Razao_Social_Completa == 2
Vendedor == 3
Valor_Comissao == 4
ID_Contrato == 5
Status_Contrato == 6
Data_Cancelamento == 7
NumColunas == 7

\* ------------------------------------------------------------------ cells
Str(s) == [k |-> "str", v |-> s]
NaN == [k |-> "nan", v |-> <<>>]
NaT == [k |-> "nat", v |-> <<>>]
Num(m, e) == [k |-> "num", v |-> <<m, e>>]
Date(d, m, y) == [k |-> "date", v |-> <<d, m, y>>]

IsNa(cell) == cell.k \in {"nan", "nat"}

Range(s) == {s[n] : n \in 1..Len(s)}

\* ------------------------------------------------------------ text, digits
DigitChars == <<"0", "1", "2", "3", "4", "5", "6", "7", "8", "9">>

IsDigit(ch) == ch \in Range(DigitChars)

DigitVal(ch) == CHOOSE n \in 0..9 : DigitChars[n + 1] = ch

AllDigits(s) == \A n \in 1..Len(s) : IsDigit(s[n])

RECURSIVE IntOf(_)
IntOf(s) ==
    IF s = <<>> THEN 0
    ELSE 10 * IntOf(SubSeq(s, 1, Len(s) - 1)) + DigitVal(s[Len(s)])

IsSpace(ch) == ch = " "

RECURSIVE LStrip(_)
LStrip(s) == IF s # <<>> /\ IsSpace(s[1]) THEN LStrip(Tail(s)) ELSE s

RECURSIVE RStrip(_)
RStrip(s) ==
    IF s # <<>> /\ IsSpace(s[Len(s)]) THEN RStrip(SubSeq(s, 1, Len(s) - 1))
    ELSE s

Strip(s) == RStrip(LStrip(s))

\* str(x): the text of a cell; a missing cell prints as "nan", the float
\* written back by an earlier pass is not read here (each row is read once).
PyStr(cell) == IF cell.k = "str" THEN cell.v ELSE <<"n", "a", "n">>

\* ------------------------------------------------------------ conversions
RECURSIVE Norm(_, _)
Norm(m, e) == IF e > 0 /\ m % 10 = 0 THEN Norm(m \div 10, e - 1) ELSE Num(m, e)

\* The value of a decimal literal (digits, at most one '.', at least one
\* digit); NaN for any other text.  Signs, exponents and the words inf/nan
\* are outside the alphabet of the inputs drawn below.
DecimalValue(s) ==
    LET dots == {n \in 1..Len(s) : s[n] = "."} IN
    IF Cardinality(dots) > 1 THEN NaN
    ELSE IF dots = {} THEN
        IF s # <<>> /\ AllDigits(s) THEN Norm(IntOf(s), 0) ELSE NaN
    ELSE LET p == CHOOSE n \in dots : TRUE
             ip == SubSeq(s, 1, p - 1)
             fp == SubSeq(s, p + 1, Len(s))
         IN IF AllDigits(ip) /\ AllDigits(fp) /\ Len(ip) + Len(fp) > 0
            THEN Norm(IntOf(ip \o fp), Len(fp)) ELSE NaN

\* float(match.group(1))
PyFloat(s) == DecimalValue(Strip(s))

\* pd.to_numeric(column, errors='coerce'), cell by cell
ToNumeric(cell) ==
    CASE cell.k = "num" -> cell
      [] cell.k = "str" -> DecimalValue(Strip(cell.v))
      [] OTHER -> NaN

IsLeap(y) == (y % 4 = 0 /\ y % 100 # 0) \/ y % 400 = 0

DaysInMonth(m, y) ==
    IF m = 2 THEN (IF IsLeap(y) THEN 29 ELSE 28)
    ELSE IF m \in {4, 6, 9, 11} THEN 30 ELSE 31

\* pd.to_datetime(column, format='%d/%m/%Y', errors='coerce'), cell by cell
ToDatetime(cell) ==
    IF cell.k # "str" THEN NaT
    ELSE LET s == cell.v
             sl == {n \in 1..Len(s) : s[n] = "/"}
         IN IF Cardinality(sl) # 2 THEN NaT
            ELSE LET p1 == CHOOSE n \in sl : \A o \in sl : n <= o
                     p2 == CHOOSE n \in sl : \A o \in sl : n >= o
                     ds == SubSeq(s, 1, p1 - 1)
                     ms == SubSeq(s, p1 + 1, p2 - 1)
                     ys == SubSeq(s, p2 + 1, Len(s))
                 IN IF /\ AllDigits(ds) /\ AllDigits(ms) /\ AllDigits(ys)
                       /\ Len(ds) \in 1..2 /\ Len(ms) \in 1..2 /\ Len(ys) = 4
                       /\ IntOf(ms) \in 1..12
                       /\ IntOf(ds) \in 1..DaysInMonth(IntOf(ms), IntOf(ys))
                    THEN Date(IntOf(ds), IntOf(ms), IntOf(ys)) ELSE NaT

\* Mutant of MatchesFrom: the pattern \d+\.\d+$ (a fraction of any length).
MatchesFromFracaoLivre(s, p) ==
    LET t == SubSeq(s, p, Len(s))
        dots == {n \in 1..Len(t) : t[n] = "."}
    IN /\ Cardinality(dots) = 1
       /\ \A n \in 1..Len(t) : n \notin dots => IsDigit(t[n])
       /\ t[1] # "." /\ t[Len(t)] # "."

\* ----------------------------------------- re.search(r'(\d+\.\d{2})$', s)
\* The pattern is anchored at the end of the text, so a match starting at p
\* takes the whole of s[p..]: one or more digits, a '.', two digits.
MatchesFrom(s, p) ==
    LET t == SubSeq(s, p, Len(s)) IN
    /\ Len(t) >= 4
    /\ AllDigits(SubSeq(t, 1, Len(t) - 3))
    /\ t[Len(t) - 2] = "."
    /\ IsDigit(t[Len(t) - 1]) /\ IsDigit(t[Len(t)])

\* Start of the leftmost match (1-based), 0 when the search returns None.
ReSearch(s) ==
    LET starts == {p \in 1..Len(s) : MatchesFrom(s, p)} IN
    IF starts = {} THEN 0 ELSE CHOOSE p \in starts : \A o \in starts : p <= o

\* ------------------------------------------------------------- DataFrames
RECURSIVE ConcatRows(_)
ConcatRows(tbls) ==
    IF tbls = <<>> THEN <<>> ELSE Head(tbls) \o ConcatRows(Tail(tbls))

MaxOf(S) == IF S = {} THEN 0 ELSE CHOOSE n \in S : \A o \in S : n >= o

Pad(row, w) == [n \in 1..w |-> IF n <= Len(row) THEN row[n] ELSE NaN]

\* pd.concat([table.df for table in tables], ignore_index=True): rows in
\* segment order, columns aligned by position, absent cells missing.
\* A frame is [cols, rows]: the number of columns and the rows [i, c].
PdConcat(tbls) ==
    LET rs == ConcatRows(tbls)
        w == MaxOf({Len(rs[n]) : n \in 1..Len(rs)})
    IN [cols |-> w,
        rows |-> [n \in 1..Len(rs) |-> [i |-> n - 1, c |-> Pad(rs[n], w)]]]

\* Series.isin(values)
Isin(cell, values) == cell \in values

sID == <<"I", "D">>

\* df_bruto[~df_bruto[0].isin(['ID', ''])]
RemoveCabecalho(frame) ==
    LET Keep(r) == ~Isin(r.c[1], {Str(sID), Str(<<>>)})
    IN [frame EXCEPT !.rows = SelectSeq(frame.rows, Keep)]

\* The loop body of limpar_e_estruturar_dados on one row.
ReparaLinha(r) ==
    LET s == Strip(PyStr(r.c[Razao_Social_Completa]))
        p == ReSearch(s)
    IN IF p = 0 THEN r
       ELSE [r EXCEPT !.c[Valor_Comissao] = PyFloat(SubSeq(s, p, Len(s))),
                      !.c[Razao_Social_Completa] = Str(Strip(SubSeq(s, 1, p - 1)))]

\* Mutant of ConverteTipos: the dropna is left out.
ConverteTiposSemDropna(frame) ==
    LET Conv(r) == [r EXCEPT !.c[Valor_Comissao] = ToNumeric(@),
                             !.c[Data_Cancelamento] = ToDatetime(@)]
    IN [frame EXCEPT !.rows = [n \in 1..Len(frame.rows) |-> Conv(frame.rows[n])]]

\* Type conversion of the two columns, then dropna(subset=['Valor_Comissao']).
ConverteTipos(frame) ==
    LET Conv(r) == [r EXCEPT !.c[Valor_Comissao] = ToNumeric(@),
                             !.c[Data_Cancelamento] = ToDatetime(@)]
        conv == [n \in 1..Len(frame.rows) |-> Conv(frame.rows[n])]
        Keep(r) == ~IsNa(r.c[Valor_Comissao])
    IN [frame EXCEPT !.rows = SelectSeq(conv, Keep)]

\* Mutant of Opcoes: unique() without dropna().
OpcoesSemDropna(frame, col) == {frame.rows[n].c[col] : n \in 1..Len(frame.rows)}

\* df[col].dropna().unique()
Opcoes(frame, col) ==
    {frame.rows[n].c[col] : n \in 1..Len(frame.rows)} \ {NaN, NaT}

\* Mutant of ApplyFilters: the two masks joined by | instead of &.
ApplyFiltersOu(frame, vs, ss) ==
    LET Keep(r) == Isin(r.c[Vendedor], vs) \/ Isin(r.c[Status_Contrato], ss)
    IN [frame EXCEPT !.rows = SelectSeq(frame.rows, Keep)]

\* Mutant of ApplyFilters: the first row of the frame is taken for a header
\* and skipped before the mask is applied.
ApplyFiltersSemPrimeira(frame, vs, ss) ==
    LET Keep(r) == Isin(r.c[Vendedor], vs) /\ Isin(r.c[Status_Contrato], ss)
    IN [frame EXCEPT !.rows = IF @ = <<>> THEN <<>> ELSE SelectSeq(Tail(@), Keep)]

\* df[df['Vendedor'].isin(vs) & df['Status_Contrato'].isin(ss)]
ApplyFilters(frame, vs, ss) ==
    LET Keep(r) == Isin(r.c[Vendedor], vs) /\ Isin(r.c[Status_Contrato], ss)
    IN [frame EXCEPT !.rows = SelectSeq(frame.rows, Keep)]

sInativo == <<"I", "n", "a", "t", "i", "v", "o">>

\* The figures of the first tab that are counts of rows of df_filtrado.
Metricas(frame) ==
    LET Inativo(r) == r.c[Status_Contrato] = Str(sInativo)
        Cancelado(r) == ~IsNa(r.c[Data_Cancelamento])
    IN [n_vendas |-> Len(frame.rows),
        contratos_inativos |-> Len(SelectSeq(frame.rows, Inativo)),
        cancelamentos |-> Len(SelectSeq(frame.rows, Cancelado))]

\* Mutant of BotaoDesabilitado: the button is created without disabled=.
BotaoSempreHabilitado == FALSE

\* st.button(..., disabled=not GEMINI_CONFIGURADO)
BotaoDesabilitado == ~GEMINI_CONFIGURADO

\* ------------------------------------------------------------------ inputs
\* What camelot can hand back for an uploaded PDF: a list of at most
\* MaxSegments tables, each a header row followed by data rows of the same
\* width.  Every cell camelot extracts is text.
tA == <<"A">>
tB == <<"B">>
tComissao == <<"5", ".", "0", "0">>
tRazaoComValor == <<"B", " ", "1", ".", "5", "5">>
tNaoNumero == <<"x">>
sAtivo == <<"A", "t", "i", "v", "o">>
tData == <<"0", "1", "/", "0", "2", "/", "2", "0", "2", "4">>

Linha(c0, razao, vend, com, contrato, status, data) ==
    <<Str(c0), Str(razao), Str(vend), Str(com), Str(contrato), Str(status), Str(data)>>

CabecalhoID == Linha(sID, <<"R">>, <<"V">>, <<"C">>, sID, <<"S">>, <<"D">>)
CabecalhoCod == Linha(<<"C", "o", "d">>, <<"R">>, <<"V">>, <<"C">>, sID, <<"S">>, <<"D">>)
CabecalhoCurto == <<Str(sID), Str(<<"R">>)>>

LinhaAtiva == Linha(<<"7">>, tA, tA, tComissao, <<"1">>, sAtivo, <<>>)
LinhaInativa == Linha(<<"8">>, tRazaoComValor, tB, <<>>, <<"2">>, sInativo, tData)
LinhaSemValor == Linha(<<"9">>, tA, tA, tNaoNumero, <<"3">>, sAtivo, <<>>)
LinhaSemID == Linha(<<>>, tB, tB, tComissao, <<"4">>, sAtivo, <<>>)

LinhasDados == {LinhaAtiva, LinhaInativa, LinhaSemValor, LinhaSemID}

LinhaCurta == <<Str(<<"6">>), Str(tRazaoComValor)>>

Segmentos ==
    {<<h>> : h \in {CabecalhoID, CabecalhoCod, CabecalhoCurto}}
    \cup {<<h, r>> : h \in {CabecalhoID, CabecalhoCod}, r \in LinhasDados}
    \cup {<<CabecalhoCurto, LinhaCurta>>, <<CabecalhoID, LinhaAtiva, LinhaInativa>>}

SeqsUpTo(S, n) == UNION {[1..m -> S] : m \in 0..n}

Uploads == SeqsUpTo(Segmentos, MaxSegments)

\* ------------------------------------------------------------ script run
Init ==
    /\ pc = "configura"
    /\ GEMINI_CONFIGURADO = FALSE
    /\ uploaded_file = <<>>
    /\ temp_existe = FALSE
    /\ tables = <<>>
    /\ df_bruto = [cols |-> 0, rows |-> <<>>]
    /\ df_entrada = [cols |-> 0, rows |-> <<>>]
    /\ idx = 0
    /\ df = <<>>
    /\ st_error = {}
    /\ tela = {}
    /\ vendedor_selecionado = {}
    /\ status_selecionado = {}
    /\ df_filtrado = <<>>
    /\ metricas = <<>>
    /\ chamadas_ia = 0
    /\ falha = "nenhuma"
    /\ excecao = "nenhuma"

\* genai.configure(api_key=st.secrets[...]) inside try/except
Configura ==
    /\ pc = "configura"
    /\ \E ok \in BOOLEAN :
         /\ GEMINI_CONFIGURADO' = ok
         /\ st_error' = IF ok THEN st_error ELSE st_error \cup {"gemini"}
    /\ pc' = "upload"
    /\ UNCHANGED <<uploaded_file, temp_existe, tables, df_bruto, df_entrada, idx,
                   df, tela, vendedor_selecionado, status_selecionado,
                   df_filtrado, metricas, chamadas_ia, falha, excecao>>

\* st.sidebar.file_uploader(...); df = None
Upload ==
    /\ pc = "upload"
    /\ \/ /\ uploaded_file' = <<>>
          /\ pc' = "principal"
       \/ /\ \E u \in Uploads : uploaded_file' = <<u>>
          /\ pc' = "grava"
    /\ df' = <<>>
    /\ UNCHANGED <<GEMINI_CONFIGURADO, temp_existe, tables, df_bruto, df_entrada,
                   idx, st_error, tela, vendedor_selecionado, status_selecionado,
                   df_filtrado, metricas, chamadas_ia, falha, excecao>>

\* Mutant of TrataErro: the handler re-raises instead of reporting.
TrataErroRelanca(motivo) ==
    /\ st_error' = st_error
    /\ falha' = motivo
    /\ pc' = "abortado"

\* except Exception as e: st.error(...)
TrataErro(motivo) ==
    /\ st_error' = st_error \cup {"erro_pdf"}
    /\ falha' = motivo
    /\ pc' = "principal"

\* open(temp_pdf_path, "wb") / f.write(...)
GravaTemp ==
    /\ pc = "grava"
    /\ \/ /\ temp_existe' = TRUE
          /\ pc' = "extrai"
          /\ UNCHANGED <<st_error, falha>>
       \/ /\ \E criado \in BOOLEAN : temp_existe' = (temp_existe \/ criado)
          /\ TrataErro("gravar")
    /\ UNCHANGED <<GEMINI_CONFIGURADO, uploaded_file, tables, df_bruto, df_entrada,
                   idx, df, tela, vendedor_selecionado, status_selecionado,
                   df_filtrado, metricas, chamadas_ia, excecao>>

\* tables = camelot.read_pdf(...); os.remove(temp_pdf_path)
ExtraiTabelas ==
    /\ pc = "extrai"
    /\ \/ /\ tables' = uploaded_file[1]
          /\ temp_existe' = FALSE
          /\ pc' = "tabelas"
          /\ UNCHANGED <<st_error, falha>>
       \/ /\ TrataErro("extrair")
          /\ UNCHANGED <<tables, temp_existe>>
    /\ UNCHANGED <<GEMINI_CONFIGURADO, uploaded_file, df_bruto, df_entrada,
                   idx, df, tela, vendedor_selecionado, status_selecionado,
                   df_filtrado, metricas, chamadas_ia, excecao>>

\* if tables: concat, header removal, call of limpar_e_estruturar_dados
\* else: st.error("Nenhuma tabela ...")
Concatena ==
    /\ pc = "tabelas"
    /\ IF tables # <<>>
       THEN /\ df_bruto' = RemoveCabecalho(PdConcat(tables))
            /\ df_entrada' = df_bruto'
            /\ pc' = "limpar"
            /\ UNCHANGED <<st_error, falha>>
       ELSE /\ st_error' = st_error \cup {"sem_tabela"}
            /\ falha' = "sem_tabela"
            /\ pc' = "principal"
            /\ UNCHANGED <<df_bruto, df_entrada>>
    /\ UNCHANGED <<GEMINI_CONFIGURADO, uploaded_file, temp_existe, tables,
                   idx, df, tela, vendedor_selecionado, status_selecionado,
                   df_filtrado, metricas, chamadas_ia, excecao>>

\* df_bruto.columns = [7 names]: raises when the frame has another width
Renomeia ==
    /\ pc = "limpar"
    /\ IF df_bruto.cols = NumColunas
       THEN /\ idx' = 1
            /\ pc' = IF df_bruto.rows = <<>> THEN "converte" ELSE "loop"
            /\ UNCHANGED <<st_error, falha>>
       ELSE /\ TrataErro("limpar")
            /\ UNCHANGED idx
    /\ UNCHANGED <<GEMINI_CONFIGURADO, uploaded_file, temp_existe, tables,
                   df_bruto, df_entrada, df, tela, vendedor_selecionado,
                   status_selecionado, df_filtrado, metricas, chamadas_ia, excecao>>

\* one pass of: for index, row in df_bruto.iterrows()
Itera ==
    /\ pc = "loop"
    /\ df_bruto' = [df_bruto EXCEPT !.rows[idx] = ReparaLinha(@)]
    /\ idx' = idx + 1
    /\ pc' = IF idx = Len(df_bruto.rows) THEN "converte" ELSE "loop"
    /\ UNCHANGED <<GEMINI_CONFIGURADO, uploaded_file, temp_existe, tables,
                   df_entrada, df, st_error, tela, vendedor_selecionado,
                   status_selecionado, df_filtrado, metricas, chamadas_ia,
                   falha, excecao>>

\* to_numeric, to_datetime, rename, dropna, return; df = ...; sidebar.success
Converte ==
    /\ pc = "converte"
    /\ df_bruto' = ConverteTipos(df_bruto)
    /\ df' = <<df_bruto'>>
    /\ tela' = tela \cup {"sucesso"}
    /\ pc' = "principal"
    /\ UNCHANGED <<GEMINI_CONFIGURADO, uploaded_file, temp_existe, tables,
                   df_entrada, idx, st_error, vendedor_selecionado,
                   status_selecionado, df_filtrado, metricas, chamadas_ia,
                   falha, excecao>>

\* if df is not None: title ... else: st.info(welcome)
Principal ==
    /\ pc = "principal"
    /\ IF df # <<>>
       THEN /\ tela' = tela \cup {"titulo"}
            /\ pc' = "filtros"
       ELSE /\ tela' = tela \cup {"boas_vindas"}
            /\ pc' = "fim"
    /\ UNCHANGED <<GEMINI_CONFIGURADO, uploaded_file, temp_existe, tables,
                   df_bruto, df_entrada, idx, df, st_error, vendedor_selecionado,
                   status_selecionado, df_filtrado, metricas, chamadas_ia,
                   falha, excecao>>

\* the two multiselects (any subset of the options; the default is all of
\* them) and df_filtrado
Filtros ==
    /\ pc = "filtros"
    /\ \E vs \in SUBSET Opcoes(df[1], Vendedor) :
       \E ss \in SUBSET Opcoes(df[1], Status_Contrato) :
         /\ vendedor_selecionado' = vs
         /\ status_selecionado' = ss
         /\ df_filtrado' = <<ApplyFilters(df[1], vs, ss)>>
    /\ tela' = tela \cup {"filtros"}
    /\ pc' = "abas"
    /\ UNCHANGED <<GEMINI_CONFIGURADO, uploaded_file, temp_existe, tables,
                   df_bruto, df_entrada, idx, df, st_error, metricas,
                   chamadas_ia, falha, excecao>>

\* tab1 and tab2
Abas ==
    /\ pc = "abas"
    /\ metricas' = <<Metricas(df_filtrado[1])>>
    /\ tela' = tela \cup {"abas"}
    /\ pc' = "botao"
    /\ UNCHANGED <<GEMINI_CONFIGURADO, uploaded_file, temp_existe, tables,
                   df_bruto, df_entrada, idx, df, st_error, vendedor_selecionado,
                   status_selecionado, df_filtrado, chamadas_ia, falha, excecao>>

\* if st.button("Gerar Análise com IA", disabled=...): a disabled button
\* cannot be clicked and returns False
Botao ==
    /\ pc = "botao"
    /\ \E clique \in BOOLEAN :
         pc' = IF clique /\ ~BotaoDesabilitado THEN "gera" ELSE "fim"
    /\ UNCHANGED <<GEMINI_CONFIGURADO, uploaded_file, temp_existe, tables,
                   df_bruto, df_entrada, idx, df, st_error, tela,
                   vendedor_selecionado, status_selecionado, df_filtrado,
                   metricas, chamadas_ia, falha, excecao>>

\* model.generate_content(prompt); st.markdown(response.text).  No handler
\* encloses the call: an exception leaves the script run.
GeraAnalise ==
    /\ pc = "gera"
    /\ chamadas_ia' = chamadas_ia + 1
    /\ \/ /\ tela' = tela \cup {"analise"}
          /\ pc' = "fim"
          /\ UNCHANGED <<falha, excecao>>
       \/ /\ falha' = "ia"
          /\ excecao' = "ia"
          /\ pc' = "abortado"
          /\ UNCHANGED tela
    /\ UNCHANGED <<GEMINI_CONFIGURADO, uploaded_file, temp_existe, tables,
                   df_bruto, df_entrada, idx, df, st_error,
                   vendedor_selecionado, status_selecionado, df_filtrado, metricas>>

Next ==
    \/ Configura \/ Upload \/ GravaTemp \/ ExtraiTabelas \/ Concatena
    \/ Renomeia \/ Itera \/ Converte
    \/ Principal \/ Filtros \/ Abas \/ Botao \/ GeraAnalise

Spec == Init /\ [][Next]_vars

\* ------------------------------------------- limpar_e_estruturar_dados alone
\* The function called on a one-row frame whose text cell is any text of at
\* most MaxTextLen characters (or missing) and whose commission cell is a
\* number, empty, not a number or missing; and on frames of another width.
Alfabeto == {"1", "5", ".", " ", "A"}

Textos == SeqsUpTo(Alfabeto, MaxTextLen)

CelulasRazao == {Str(t) : t \in Textos} \cup {NaN}

CelulasComissao == {Str(tComissao), Str(<<>>), Str(tNaoNumero), NaN}

FramesLimpar ==
    {[cols |-> NumColunas,
      rows |-> <<[i |-> 0,
                  c |-> <<Str(<<"7">>), razao, Str(tA), com, Str(<<"1">>),
                          Str(sAtivo), Str(tData)>>]>>] :
        razao \in CelulasRazao, com \in CelulasComissao}
    \cup {[cols |-> 2, rows |-> <<[i |-> 0, c |-> LinhaCurta]>>]}

InitLimpar ==
    /\ pc = "limpar"
    /\ GEMINI_CONFIGURADO = TRUE
    /\ uploaded_file = <<<<>>>>
    /\ temp_existe = FALSE
    /\ tables = <<>>
    /\ df_bruto \in FramesLimpar
    /\ df_entrada = df_bruto
    /\ idx = 0
    /\ df = <<>>
    /\ st_error = {}
    /\ tela = {}
    /\ vendedor_selecionado = {}
    /\ status_selecionado = {}
    /\ df_filtrado = <<>>
    /\ metricas = <<>>
    /\ chamadas_ia = 0
    /\ falha = "nenhuma"
    /\ excecao = "nenhuma"

NextLimpar == Renomeia \/ Itera \/ Converte

SpecLimpar == InitLimpar /\ [][NextLimpar]_vars

\* ------------------------------------------------------------------ claims
\* df_filtrado has been computed in this run
Filtrado == df_filtrado # <<>>

SemFalta(r) == ~IsNa(r.c[Vendedor]) /\ ~IsNa(r.c[Status_Contrato])

\* C1: once df_filtrado is computed, a row of df is in it if and only if its
\* Vendedor is one of the selected sellers and its Status_Contrato one of the
\* selected statuses; a row with either cell missing is never in it.
C1_FiltroPorPertinencia ==
    Filtrado =>
        LET todas == Range(df[1].rows)
            ficam == Range(df_filtrado[1].rows)
        IN /\ ficam \subseteq todas
           /\ \A r \in todas :
                /\ (r \in ficam) <=>
                       (/\ r.c[Vendedor] \in vendedor_selecionado
                        /\ r.c[Status_Contrato] \in status_selecionado)
                /\ ~SemFalta(r) => r \notin ficam

C1_Witness ==
    /\ pc = "fim"
    /\ df # <<>>
    /\ \E r \in Range(df[1].rows) : ~SemFalta(r)
    /\ \E r \in Range(df[1].rows) : SemFalta(r) /\ r \notin Range(df_filtrado[1].rows)
    /\ df_filtrado[1].rows # <<>>

SelecaoPadrao ==
    /\ vendedor_selecionado = Opcoes(df[1], Vendedor)
    /\ status_selecionado = Opcoes(df[1], Status_Contrato)

\* C2 as stated: with both multiselects at their default (all options),
\* df_filtrado holds exactly the rows of df, missing cells or not.
C2_Original == Filtrado /\ SelecaoPadrao => df_filtrado[1] = df[1]

\* C2 amended: with both multiselects at their default, df_filtrado holds
\* exactly the rows of df whose Vendedor and Status_Contrato are both present,
\* in the order of df; it equals df when df has no such missing cell.
C2_PadraoSoTiraFaltantes ==
    Filtrado /\ SelecaoPadrao =>
        /\ df_filtrado[1].rows = SelectSeq(df[1].rows, SemFalta)
        /\ (\A r \in Range(df[1].rows) : SemFalta(r)) => df_filtrado[1] = df[1]

C2_Witness ==
    /\ pc = "fim"
    /\ df # <<>>
    /\ SelecaoPadrao
    /\ \E r \in Range(df[1].rows) : ~SemFalta(r)
    /\ df_filtrado[1].rows # <<>>

\* C3: after any failure of the PDF processing (temp file, extraction, no
\* table, cleaning) an error has been reported, no exception has left the
\* script, df is None, and the run ends in the pre-upload state: welcome
\* message, no filters, no tabs, no text-generation call.
C3_FalhaVoltaAoInicio ==
    falha \in {"gravar", "extrair", "sem_tabela", "limpar"} =>
        /\ st_error \cap {"erro_pdf", "sem_tabela"} # {}
        /\ df = <<>>
        /\ excecao = "nenhuma"
        /\ pc \in {"principal", "fim"}
        /\ pc = "fim" => "boas_vindas" \in tela
        /\ tela \cap {"sucesso", "titulo", "filtros", "abas", "analise"} = {}
        /\ chamadas_ia = 0

C3_Witness ==
    /\ falha = "limpar"
    /\ pc = "fim"
    /\ "boas_vindas" \in tela
    /\ "erro_pdf" \in st_error

\* the text of a row's Razao_Social_Completa as the loop reads it
C9_Texto(r) == Strip(PyStr(r.c[Razao_Social_Completa]))

\* t is digits, '.', two digits
C9_EhToken(t) ==
    /\ Len(t) >= 4
    /\ \A n \in 1..Len(t) : IF n = Len(t) - 2 THEN t[n] = "." ELSE IsDigit(t[n])

C9_Sufixos(s) == {k \in 1..Len(s) : C9_EhToken(SubSeq(s, Len(s) - k + 1, Len(s)))}

C9_TerminaComToken(s) == C9_Sufixos(s) # {}

\* length of the token a text ends with (the whole run of digits before '.')
C9_TamToken(s) == MaxOf(C9_Sufixos(s))

\* the number a token denotes: its digits without the '.', in hundredths
C9_Valor(t) == Norm(IntOf(SubSeq(t, 1, Len(t) - 3) \o SubSeq(t, Len(t) - 1, Len(t))), 2)

\* a row's commission is a number once repaired and converted
C4_TemComissao(r) ==
    \/ C9_TerminaComToken(C9_Texto(r))
    \/ r.c[Valor_Comissao].k = "str"
         /\ DecimalValue(Strip(r.c[Valor_Comissao].v)).k = "num"

Devolvido == pc = "principal" /\ df # <<>>

\* C4 as stated: limpar_e_estruturar_dados returns as many rows as it was
\* given; a commission that cannot be parsed never removes a row.
C4_Original == Devolvido => Len(df[1].rows) = Len(df_entrada.rows)

\* C4 amended: a commission that cannot be parsed becomes missing and its row
\* is removed: the rows returned are exactly the rows passed in whose
\* commission, after the trailing-number repair, parses as a number, and no
\* returned row has a missing Valor_Comissao.
C4_RemoveSemComissao ==
    Devolvido =>
        /\ [n \in 1..Len(df[1].rows) |-> df[1].rows[n].i]
             = [n \in 1..Len(SelectSeq(df_entrada.rows, C4_TemComissao)) |->
                    SelectSeq(df_entrada.rows, C4_TemComissao)[n].i]
        /\ \A r \in Range(df[1].rows) : r.c[Valor_Comissao].k = "num"

C4_Witness ==
    /\ Devolvido
    /\ df[1].rows # <<>>
    /\ Len(df[1].rows) < Len(df_entrada.rows)

RECURSIVE C5_LinhasDeDados(_)
C5_LinhasDeDados(tbls) ==
    IF tbls = <<>> THEN <<>>
    ELSE Tail(Head(tbls)) \o C5_LinhasDeDados(Tail(tbls))

\* C5: the table passed to limpar_e_estruturar_dados holds every data row
\* of every segment (all rows but each segment's first), in segment order,
\* and no header row, whatever the first cells are.
C5_Original ==
    pc = "limpar" =>
        LET dados == C5_LinhasDeDados(tables) IN
        /\ Len(df_entrada.rows) = Len(dados)
        /\ \A n \in 1..Len(dados) :
             df_entrada.rows[n].c = Pad(dados[n], df_entrada.cols)

\* C6: when configuring the credential failed, GEMINI_CONFIGURADO is False,
\* no generate_content call is issued, and a run that loaded a dataset still
\* shows the filters and the tabs, with the figures of df filtered by the
\* selections.
C6_SemCredencial ==
    "gemini" \in st_error =>
        /\ ~GEMINI_CONFIGURADO
        /\ chamadas_ia = 0
        /\ pc \notin {"gera", "abortado"}
        /\ "analise" \notin tela
        /\ excecao = "nenhuma"
        /\ pc = "fim" /\ df # <<>> =>
             /\ {"filtros", "abas"} \subseteq tela
             /\ metricas = <<Metricas(ApplyFilters(df[1], vendedor_selecionado,
                                                   status_selecionado))>>

C6_Witness ==
    /\ "gemini" \in st_error
    /\ pc = "fim"
    /\ "abas" \in tela
    /\ df_filtrado[1].rows # <<>>

\* C7: when the text-generation call fails, the failure is caught and
\* reported as an error of that request, no exception leaves the script run,
\* and the call is not retried.
C7_Original ==
    falha = "ia" =>
        /\ excecao = "nenhuma"
        /\ "erro_ia" \in st_error
        /\ chamadas_ia = 1

\* C8: filtering df_filtrado again with the same selections gives df_filtrado.
C8_Idempotente ==
    Filtrado =>
        ApplyFilters(df_filtrado[1], vendedor_selecionado, status_selecionado)
            = df_filtrado[1]

C8_Witness ==
    /\ pc = "fim"
    /\ df # <<>>
    /\ Len(df_filtrado[1].rows) >= 2
    /\ Len(df_filtrado[1].rows) < Len(df[1].rows)

\* C9: after the loop, a row whose stripped text ends with digits '.' two
\* digits has that number as its Valor_Comissao and the stripped text before
\* the token as its text, the other cells as they were; any other row is as
\* it was.
C9_ReparoDoValorFinal ==
    pc = "converte" =>
        \A n \in 1..Len(df_entrada.rows) :
            LET antes == df_entrada.rows[n]
                depois == df_bruto.rows[n]
                s == C9_Texto(antes)
                k == C9_TamToken(s)
            IN IF C9_TerminaComToken(s)
               THEN /\ depois.c[Valor_Comissao] = C9_Valor(SubSeq(s, Len(s) - k + 1, Len(s)))
                    /\ depois.c[Razao_Social_Completa] = Str(Strip(SubSeq(s, 1, Len(s) - k)))
                    /\ \A col \in 1..NumColunas \ {Valor_Comissao, Razao_Social_Completa} :
                         depois.c[col] = antes.c[col]
                    /\ depois.i = antes.i
               ELSE depois = antes

C9_Witness ==
    /\ pc = "converte"
    /\ df_entrada.rows # <<>>
    /\ C9_TerminaComToken(C9_Texto(df_entrada.rows[1]))
    /\ df_entrada.rows[1].c[Valor_Comissao] = Str(tComissao)
    /\ df_bruto.rows[1].c[Valor_Comissao] = Num(155, 2)
    /\ df_bruto.rows[1].c[Razao_Social_Completa] = Str(<<"A">>)

\* C10: once the upload-processing block is left, the temporary file it
\* wrote no longer exists.
C10_Original ==
    uploaded_file # <<>> /\ pc \notin {"configura", "upload", "grava", "extrai"}
        => ~temp_existe

====
